---- MODULE Spec2Model ----
(***************************************************************************)
(* Model of energizer/strategies/base.py: EnergizerStrategy, the streaming *)
(* top-k state (values, indices, _counter) that test_step / test_step_end  *)
(* maintain over the batches of the pool.                                  *)
(*                                                                         *)
(* Scores are float32 tensors in the code.  Only their order and equality  *)
(* matter to torch.topk, so a score is modelled by an integer (0 is 0.0).  *)
(* A tensor is a sequence; tensor position p (0-based) is sequence         *)
(* position p + 1.  Pool indices and batch-local indices are 0-based, as   *)
(* in the code.                                                            *)
(***************************************************************************)
EXTENDS Integers, Sequences, FiniteSets

\* ------------------------------------------------------------------ bounds
MaxPool == 3        \* largest pool_size of the datamodule
MaxQuery == 3       \* largest query_size handed to connect
MaxOverrun == 1     \* batches are fed while _counter <= pool_size + MaxOverrun
NumWorkers == 2     \* strategy instances (one per worker process)

\* The scores an example may have: negative, zero and positive floats.
Scores == {-2, -1, 0, 1, 2}

\* The pools of the datamodule: 1..MaxPool examples with pairwise-distinct
\* scores (which of two equal scores torch.topk prefers is not specified; the
\* reset state's 0.0 still ties with an example whose score is 0.0).
Pools == {p \in UNION {[1..n -> Scores] : n \in 1..MaxPool} :
            \A i, j \in 1..Len(p) : p[i] = p[j] => i = j}

Workers == 1..NumWorkers

\* ------------------------------------------------- values of Optional fields
\* Optional[int] fields (_counter, query_size) hold None after __init__.
None == -1
\* Optional[Tensor] fields (values, indices) hold None after __init__.
NoTensor == << >>
\* No test_step result is waiting for test_step_end.
NoOutputs == [batch |-> << >>, values |-> << >>, indices |-> << >>, batch_size |-> 0]
\* No reset() was the last call on the instance.
NoReset == [counter |-> None, error |-> "none"]

\* ------------------------------------------------------------------ state
VARIABLES
    pool,                 \* the pool's scores: objective(forward(example p)) = pool[p + 1]
    pool_size,            \* trainer.datamodule.pool_size
    objective_overridden, \* whether the concrete strategy overrides objective()
    query_size,           \* query_size[w]: self.query_size of worker w's instance
    counter,              \* counter[w]: self._counter
    values,               \* values[w]: self.values
    indices,              \* indices[w]: self.indices
    outputs,              \* outputs[w]: what test_step returned, until test_step_end takes it
    error,                \* error[w]: what the last call on the instance raised ("ok" if nothing)
    hist,                 \* hist[w]: the batches _batch_to_pool has counted since _counter was 0
    reset_from            \* reset_from[w]: the _counter and error reset() found, while reset() is the last call

vars == <<pool, pool_size, objective_overridden, query_size, counter, values, indices,
          outputs, error, hist, reset_from>>

\* ---------------------------------------------------------------- helpers
Min(a, b) == IF a <= b THEN a ELSE b

Max(a, b) == IF a >= b THEN a ELSE b

Range(s) == {s[i] : i \in 1..Len(s)}

RECURSIVE SumSeq(_)
SumSeq(s) == IF s = << >> THEN 0 ELSE s[1] + SumSeq(Tail(s))

RECURSIVE Flatten(_)
Flatten(ss) == IF ss = << >> THEN << >> ELSE ss[1] \o Flatten(Tail(ss))

\* torch.zeros(n) and -torch.ones(n)
Zeros(n) == [i \in 1..n |-> 0]

MinusOnes(n) == [i \in 1..n |-> -1]

\* The scores of the examples of a batch (a sequence of pool positions):
\* on_after_objective(objective(on_before_objective(self(batch)))).
ScoresOf(p, batch) == [i \in 1..Len(batch) |-> p[batch[i] + 1]]

\* ------------------------------------------------------------- torch.topk
\* torch.topk(scores, k, dim=0): the k largest entries, sorted, largest first,
\* with their positions.  Which of several equal entries comes first, and which
\* of them is kept at the boundary, is not specified: every choice is possible.
RECURSIVE TopKFrom(_, _, _)
TopKFrom(scores, k, chosen) ==
    IF Len(chosen) = k THEN {chosen}
    ELSE LET rest == (1..Len(scores)) \ Range(chosen)
             best == {i \in rest : \A j \in rest : scores[j] <= scores[i]}
         IN  UNION {TopKFrom(scores, k, Append(chosen, i)) : i \in best}

\* Mutant: the first k entries are taken, without selecting the largest.
TopKFirst(scores, k) ==
    {[values |-> [j \in 1..k |-> scores[j]], indices |-> [j \in 1..k |-> j - 1]]}

\* Mutant: the k smallest entries are selected (largest=False).
TopKSmallest(scores, k) ==
    {[values |-> [j \in 1..k |-> scores[idx[j]]], indices |-> [j \in 1..k |-> idx[j] - 1]] :
        idx \in TopKFrom([i \in 1..Len(scores) |-> 0 - scores[i]], k, << >>)}

TopK(scores, k) ==
    {[values |-> [j \in 1..k |-> scores[idx[j]]], indices |-> [j \in 1..k |-> idx[j] - 1]] :
        idx \in TopKFrom(scores, k, << >>)}

\* Mutant: every entry is returned, sorted, not only the best query_size.
OptimizeObjectiveAll(scores, q) == TopK(scores, Len(scores))

\* optimize_objective(scores): the possible (values, indices) results.
OptimizeObjective(scores, q) == TopK(scores, Min(Len(scores), q))

\* ------------------------------------------------------------ _batch_to_pool
\* Mutant: the check is `>=` instead of `>`.
BatchToPoolEager(local, batch_size, c, psize) ==
    [indices |-> [j \in 1..Len(local) |-> local[j] + c],
     counter |-> c + batch_size,
     raised  |-> c + batch_size >= psize]

\* Mutant: the check runs before _counter is advanced.
BatchToPoolLateCheck(local, batch_size, c, psize) ==
    [indices |-> [j \in 1..Len(local) |-> local[j] + c],
     counter |-> c + batch_size,
     raised  |-> c > psize]

\* Mutant: _counter advances by the number of candidates, not by batch_size.
BatchToPoolCountsCandidates(local, batch_size, c, psize) ==
    [indices |-> [j \in 1..Len(local) |-> local[j] + c],
     counter |-> c + Len(local),
     raised  |-> c + Len(local) > psize]

\* Mutant: the batch-local indices are not shifted by _counter.
BatchToPoolNoShift(local, batch_size, c, psize) ==
    [indices |-> local,
     counter |-> c + batch_size,
     raised  |-> c + batch_size > psize]

\* Mutant: the indices are shifted after _counter was advanced.
BatchToPoolShiftAfter(local, batch_size, c, psize) ==
    [indices |-> [j \in 1..Len(local) |-> local[j] + c + batch_size],
     counter |-> c + batch_size,
     raised  |-> c + batch_size > psize]

\* Mutant: a call that raises does not keep the advanced _counter.
BatchToPoolRollback(local, batch_size, c, psize) ==
    [indices |-> [j \in 1..Len(local) |-> local[j] + c],
     counter |-> IF c + batch_size > psize THEN c ELSE c + batch_size,
     raised  |-> c + batch_size > psize]

\* Mutant: _counter is clamped to pool_size instead of raising.
BatchToPoolClamp(local, batch_size, c, psize) ==
    [indices |-> [j \in 1..Len(local) |-> local[j] + c],
     counter |-> Min(c + batch_size, psize),
     raised  |-> FALSE]

\* The batch-local indices shifted by _counter, the advanced _counter, and
\* whether the call raises the RuntimeError.
BatchToPool(local, batch_size, c, psize) ==
    [indices |-> [j \in 1..Len(local) |-> local[j] + c],
     counter |-> c + batch_size,
     raised  |-> c + batch_size > psize]

\* --------------------------------------------------------- Tensor.copy_
\* dst.copy_(src) needs src to have dst's shape or to broadcast to it.
CopyOk(dst, src) == Len(src) = Len(dst) \/ Len(src) = 1

Copy(dst, src) == [j \in 1..Len(dst) |-> IF Len(src) = Len(dst) THEN src[j] ELSE src[1]]

\* ------------------------------------------------ the merge of test_step_end
\* Lines 118-123: the possible new (values, indices) after the batch's
\* candidates, already carrying pool indices, are merged into the state.
Merge(vals, inds, bvalues, bindices, q) ==
    LET all_values  == vals \o bvalues
        all_indices == inds \o bindices
    IN  {[values  |-> r.values,
          indices |-> [j \in 1..Len(r.indices) |-> all_indices[r.indices[j] + 1]]] :
            r \in OptimizeObjective(all_values, q)}

\* ------------------------------------------------------------------ reset
\* Mutant: indices start as zeros, like values.
ResetIndicesZeros(q) == Zeros(q)

\* Mutant: values is allocated one slot too long.
ResetValuesLong(q) == Zeros(q + 1)

\* Lines 65-67: the values reset() assigns.
ResetCounter == 0

ResetValues(q) == Zeros(q)

ResetIndices(q) == MinusOnes(q)

\* ------------------------------------------------------------ ghost state
\* Number of examples in the batches counted since _counter was 0.
Fed(w) == Len(Flatten([i \in 1..Len(hist[w]) |-> hist[w][i].batch]))

\* Number of test_step_end calls that raised the RuntimeError of _batch_to_pool
\* since _counter was 0.
NumRaised(w) == Cardinality({i \in 1..Len(hist[w]) : hist[w][i].raised})

\* The next batch_size examples of a sequential dataloader over the pool; a
\* pass that runs past the end of the pool starts again at its beginning.
LoaderBatch(w, batch_size) == [j \in 1..batch_size |-> (Fed(w) + j - 1) % pool_size]

\* The contiguous block of batch_size examples starting at pool position start.
Block(start, batch_size) == [j \in 1..batch_size |-> start + j - 1]

\* The examples some worker has taken in this pass over the pool.
Taken ==
    UNION {Range(Flatten([i \in 1..Len(hist[w]) |-> hist[w][i].batch])) \cup Range(outputs[w].batch) :
            w \in Workers}

\* ------------------------------------------------------------------- Init
\* The state after __init__ (lines 38-45), for some pool of the datamodule.
Init ==
    /\ pool \in Pools
    /\ pool_size = Len(pool)
    /\ objective_overridden \in BOOLEAN
    /\ query_size = [w \in Workers |-> None]
    /\ counter = [w \in Workers |-> None]
    /\ values = [w \in Workers |-> NoTensor]
    /\ indices = [w \in Workers |-> NoTensor]
    /\ outputs = [w \in Workers |-> NoOutputs]
    /\ error = [w \in Workers |-> "ok"]
    /\ hist = [w \in Workers |-> << >>]
    /\ reset_from = [w \in Workers |-> NoReset]

\* ---------------------------------------------------------------- actions
\* connect(module, query_size), lines 59-61: the deferred initialization.
Connect(w, q) ==
    /\ query_size[w] = None
    /\ outputs[w] = NoOutputs
    /\ query_size' = [query_size EXCEPT ![w] = q]
    /\ error' = [error EXCEPT ![w] = "ok"]
    /\ reset_from' = [reset_from EXCEPT ![w] = NoReset]
    /\ UNCHANGED <<pool, pool_size, objective_overridden, counter, values, indices, outputs, hist>>

\* reset(), lines 65-67.  With query_size still None, torch.zeros(None) raises
\* after line 65 has set _counter.
Reset(w) ==
    /\ outputs[w] = NoOutputs
    /\ reset_from' = [reset_from EXCEPT ![w] =
            [counter |-> counter[w], error |-> error[w]]]
    /\ counter' = [counter EXCEPT ![w] = ResetCounter]
    /\ hist' = [hist EXCEPT ![w] = << >>]
    /\ IF query_size[w] = None
       THEN /\ error' = [error EXCEPT ![w] = "TypeError"]
            /\ UNCHANGED <<values, indices>>
       ELSE /\ values' = [values EXCEPT ![w] = ResetValues(query_size[w])]
            /\ indices' = [indices EXCEPT ![w] = ResetIndices(query_size[w])]
            /\ error' = [error EXCEPT ![w] = "ok"]
    /\ UNCHANGED <<pool, pool_size, objective_overridden, query_size, outputs>>

\* Mutant: the base class's objective returns its input instead of raising.
TestStepObjectiveReturns(w, batch) ==
    /\ outputs[w] = NoOutputs
    /\ counter[w] <= pool_size + MaxOverrun
    /\ reset_from' = [reset_from EXCEPT ![w] = NoReset]
    /\ IF query_size[w] = None
       THEN /\ error' = [error EXCEPT ![w] = "TypeError"]
            /\ UNCHANGED outputs
       ELSE /\ \E r \in OptimizeObjective(ScoresOf(pool, batch), query_size[w]) :
                outputs' = [outputs EXCEPT ![w] =
                    [batch |-> batch, values |-> r.values, indices |-> r.indices,
                     batch_size |-> Len(batch)]]
            /\ error' = [error EXCEPT ![w] = "ok"]
    /\ UNCHANGED <<pool, pool_size, objective_overridden, query_size, counter, values, indices, hist>>

\* test_step(batch, batch_idx), lines 101-111.  The base class's objective
\* raises NotImplementedError (line 139); min(n, None) in optimize_objective
\* raises TypeError while query_size is None.  The pool loop stops feeding an
\* instance whose _counter has run MaxOverrun past the pool.
TestStep(w, batch) ==
    /\ outputs[w] = NoOutputs
    /\ counter[w] <= pool_size + MaxOverrun
    /\ reset_from' = [reset_from EXCEPT ![w] = NoReset]
    /\ IF ~objective_overridden
       THEN /\ error' = [error EXCEPT ![w] = "NotImplementedError"]
            /\ UNCHANGED outputs
       ELSE IF query_size[w] = None
       THEN /\ error' = [error EXCEPT ![w] = "TypeError"]
            /\ UNCHANGED outputs
       ELSE /\ \E r \in OptimizeObjective(ScoresOf(pool, batch), query_size[w]) :
                outputs' = [outputs EXCEPT ![w] =
                    [batch |-> batch, values |-> r.values, indices |-> r.indices,
                     batch_size |-> Len(batch)]]
            /\ error' = [error EXCEPT ![w] = "ok"]
    /\ UNCHANGED <<pool, pool_size, objective_overridden, query_size, counter, values, indices, hist>>

\* test_step_end(outputs), lines 115-123.  `indices += None` raises TypeError
\* while _counter is None; _batch_to_pool raises after it advanced _counter;
\* torch.cat raises TypeError while self.values is None.
TestStepEnd(w) ==
    /\ outputs[w] # NoOutputs
    /\ outputs' = [outputs EXCEPT ![w] = NoOutputs]
    /\ reset_from' = [reset_from EXCEPT ![w] = NoReset]
    /\ IF counter[w] = None
       THEN /\ error' = [error EXCEPT ![w] = "TypeError"]
            /\ UNCHANGED <<counter, values, indices, hist>>
       ELSE LET out == outputs[w]
                b == BatchToPool(out.indices, out.batch_size, counter[w], pool_size)
            IN  /\ counter' = [counter EXCEPT ![w] = b.counter]
                /\ hist' = [hist EXCEPT ![w] = Append(@, [batch |-> out.batch, raised |-> b.raised])]
                /\ IF b.raised
                   THEN /\ error' = [error EXCEPT ![w] = "RuntimeError"]
                        /\ UNCHANGED <<values, indices>>
                   ELSE IF values[w] = NoTensor
                   THEN /\ error' = [error EXCEPT ![w] = "TypeError"]
                        /\ UNCHANGED <<values, indices>>
                   ELSE \E m \in Merge(values[w], indices[w], out.values, b.indices, query_size[w]) :
                        IF ~CopyOk(values[w], m.values)
                        THEN /\ error' = [error EXCEPT ![w] = "ShapeError"]
                             /\ UNCHANGED <<values, indices>>
                        ELSE /\ values' = [values EXCEPT ![w] = Copy(@, m.values)]
                             /\ IF CopyOk(indices[w], m.indices)
                                THEN /\ indices' = [indices EXCEPT ![w] = Copy(@, m.indices)]
                                     /\ error' = [error EXCEPT ![w] = "ok"]
                                ELSE /\ error' = [error EXCEPT ![w] = "ShapeError"]
                                     /\ UNCHANGED indices
    /\ UNCHANGED <<pool, pool_size, objective_overridden, query_size>>

\* --------------------------------------------------------- specifications
\* One strategy instance, fed by a sequential dataloader over the pool.
MainWorker == {w \in Workers : w = 1}

Next ==
    \E w \in MainWorker :
        \/ \E q \in 1..MaxQuery : Connect(w, q)
        \/ Reset(w)
        \/ \E batch_size \in 1..pool_size : TestStep(w, LoaderBatch(w, batch_size))
        \/ TestStepEnd(w)

Spec == Init /\ [][Next]_vars

\* One round of a pool loop that runs one instance per worker.  The loop
\* connects every instance with the same query_size, resets it before its
\* first batch, and hands each worker batches of examples that no worker has
\* taken yet, in any order.
ConnectWorker(w, q) ==
    /\ \A v \in Workers : query_size[v] \in {None, q}
    /\ Connect(w, q)

ResetWorker(w) ==
    /\ query_size[w] # None
    /\ hist[w] = << >>
    /\ Reset(w)

TestStepShard(w, batch) ==
    /\ values[w] # NoTensor
    /\ Range(batch) \cap Taken = {}
    /\ TestStep(w, batch)

NextWorkers ==
    \E w \in Workers :
        \/ \E q \in 1..MaxQuery : ConnectWorker(w, q)
        \/ ResetWorker(w)
        \/ \E start \in 0..(pool_size - 1) : \E batch_size \in 1..(pool_size - start) :
                TestStepShard(w, Block(start, batch_size))
        \/ TestStepEnd(w)

SpecWorkers == Init /\ [][NextWorkers]_vars

\* ------------------------------------------------ a round as a function
\* reset() followed by test_step and test_step_end on each batch of a
\* sequence, as one strategy instance runs them: the possible final states.
ResetState(q) == [counter |-> ResetCounter, values |-> ResetValues(q), indices |-> ResetIndices(q)]

\* test_step on the batch (lines 101-111), then test_step_end on its result
\* (lines 115-123), from state st.
StepResults(st, batch, p, q, psize) ==
    UNION {LET b == BatchToPool(out.indices, Len(batch), st.counter, psize)
           IN  IF b.raised
               THEN {[counter |-> b.counter, values |-> st.values, indices |-> st.indices]}
               ELSE {[counter |-> b.counter,
                      values |-> Copy(st.values, m.values),
                      indices |-> Copy(st.indices, m.indices)] :
                        m \in Merge(st.values, st.indices, out.values, b.indices, q)} :
           out \in OptimizeObjective(ScoresOf(p, batch), q)}

RECURSIVE RunFrom(_, _, _, _, _)
RunFrom(sts, batches, p, q, psize) ==
    IF batches = << >> THEN sts
    ELSE RunFrom(UNION {StepResults(st, batches[1], p, q, psize) : st \in sts},
                 Tail(batches), p, q, psize)

RunRound(batches, p, q, psize) == RunFrom({ResetState(q)}, batches, p, q, psize)

\* ------------------------------------------------- vocabulary of the claims
\* A successful reset() has allocated the state of w's instance.
IsReset(w) == values[w] # NoTensor

\* The batches counted since the last reset, and their sizes.
Batches(w) == [i \in 1..Len(hist[w]) |-> hist[w][i].batch]

BatchSizes(w) == [i \in 1..Len(hist[w]) |-> Len(hist[w][i].batch)]

\* The (score, index) pairs a state holds.
PairSet(vals, inds) == {<<vals[i], inds[i]>> : i \in 1..Len(vals)}

\* The k largest (score, pool position) pairs of the pool p.
TrueTopK(p, k) ==
    {<<p[i], i - 1>> : i \in {i \in 1..Len(p) : Cardinality({j \in 1..Len(p) : p[j] > p[i]}) < k}}

\* The pool in order, 0 .. pool_size - 1.
PoolOrder == [i \in 1..pool_size |-> i - 1]

\* w's instance was reset and then merged every batch of one pass over the
\* pool, the batches being consecutive in pool order; nothing is pending.
FullPass(w) ==
    /\ IsReset(w)
    /\ outputs[w] = NoOutputs
    /\ NumRaised(w) = 0
    /\ Flatten(Batches(w)) = PoolOrder

\* The cut of 0 .. n-1 into consecutive batches at the cut points S.
RECURSIVE BlocksFrom(_, _, _)
BlocksFrom(start, S, n) ==
    IF start >= n THEN << >>
    ELSE LET next == CHOOSE c \in (S \cup {n}) :
                        c > start /\ \A d \in (S \cup {n}) : d > start => c <= d
         IN  <<Block(start, next - start)>> \o BlocksFrom(next, S, n)

Cuts(n) == {BlocksFrom(0, S, n) : S \in SUBSET (1..(n - 1))}

\* The orders in which a sequence of batches can be fed.
Orders(batches) ==
    LET n == Len(batches)
        perms == {f \in [1..n -> 1..n] : \A i, j \in 1..n : f[i] = f[j] => i = j}
    IN  {[i \in 1..n |-> batches[f[i]]] : f \in perms}

\* ------------------------------------------------------------------ claims

\* C1: after reset() and one pass over the pool in consecutive batches, with
\* query_size <= pool_size, the (values[i], indices[i]) pairs are the
\* query_size largest (score, pool position) pairs of the whole pool.
C1_TopKOfPool ==
    \A w \in Workers :
        (FullPass(w) /\ query_size[w] <= pool_size)
            => PairSet(values[w], indices[w]) = TrueTopK(pool, query_size[w])

\* C2: feeding the same batches in another order gives the same final set
\* of (score, index) pairs: the pairs this instance ended with are a possible
\* outcome of every order of its batches.
C2_OrderInvariant ==
    \A w \in Workers :
        (IsReset(w) /\ outputs[w] = NoOutputs /\ NumRaised(w) = 0
            /\ Range(Flatten(Batches(w))) = Range(PoolOrder))
            => \A order \in Orders(Batches(w)) :
                  \E r \in RunRound(order, pool, query_size[w], pool_size) :
                      PairSet(r.values, r.indices) = PairSet(values[w], indices[w])

\* C3: since reset(), a test_step_end call raised the RuntimeError exactly
\* when the batch sizes up to and including its own add up to more than
\* pool_size; the error reported last is that of the last call.
C3_OverflowDetected ==
    \A w \in Workers :
        /\ \A j \in 1..Len(hist[w]) :
              hist[w][j].raised <=> (SumSeq(SubSeq(BatchSizes(w), 1, j)) > pool_size)
        /\ error[w] = "RuntimeError" => (hist[w] # << >> /\ hist[w][Len(hist[w])].raised)

\* C3 witness: after batches that did not raise, one that exceeds the pool did.
C3_Witness ==
    \E w \in Workers :
        /\ IsReset(w)
        /\ Len(hist[w]) >= 3
        /\ hist[w][Len(hist[w])].raised
        /\ ~hist[w][Len(hist[w]) - 1].raised
        /\ SumSeq(SubSeq(BatchSizes(w), 1, Len(hist[w]) - 1)) = pool_size
        /\ error[w] = "RuntimeError"

\* C4 (as stated): after reset(), _counter <= pool_size in every state,
\* also in the state a raising test_step_end call leaves behind.
C4_CounterNeverExceeds ==
    \A w \in Workers : IsReset(w) => counter[w] <= pool_size

\* C4 (amended): after reset(), _counter <= pool_size as long as no
\* test_step_end call has raised; a call that raised has left _counter above
\* pool_size.
C4_CounterBoundUnlessRaised ==
    \A w \in Workers :
        IsReset(w) => /\ NumRaised(w) = 0 => counter[w] <= pool_size
                      /\ NumRaised(w) > 0 => counter[w] > pool_size

\* C4 witness: the state a raising call leaves behind.
C4_Witness ==
    \E w \in Workers :
        /\ IsReset(w)
        /\ error[w] = "RuntimeError"
        /\ NumRaised(w) = 1
        /\ counter[w] > pool_size

\* C5: after reset() and calls that did not raise, _counter is the sum of
\* the calls' batch sizes.
C5_CounterIsSum ==
    \A w \in Workers :
        (IsReset(w) /\ NumRaised(w) = 0) => counter[w] = SumSeq(BatchSizes(w))

\* C5 witness: several batches counted, one of them larger than query_size.
C5_Witness ==
    \E w \in Workers :
        /\ IsReset(w)
        /\ NumRaised(w) = 0
        /\ Len(hist[w]) >= 2
        /\ \E j \in 1..Len(hist[w]) : Len(hist[w][j].batch) > query_size[w]
        /\ counter[w] = pool_size

\* C6: after reset() and merges that processed n examples in total, exactly
\* max(0, query_size - n) slots hold the pair (index -1, value 0.0), and every
\* other slot holds the index and the score of a processed example.
C6_SentinelSlots ==
    \A w \in Workers :
        (IsReset(w) /\ NumRaised(w) = 0) =>
            LET n == SumSeq(BatchSizes(w))
                sentinel == {i \in 1..Len(indices[w]) : indices[w][i] = -1 /\ values[w][i] = 0}
            IN  /\ Cardinality(sentinel) = Max(0, query_size[w] - n)
                /\ \A i \in (1..Len(indices[w])) \ sentinel :
                      /\ indices[w][i] \in 0..(n - 1)
                      /\ values[w][i] = pool[Flatten(Batches(w))[indices[w][i] + 1] + 1]

\* C7: right after reset() on an instance whose query_size is set, whatever
\* state reset() was called in, _counter is 0, values is query_size zeros and
\* indices is query_size times -1 (so a second reset() changes nothing).
C7_ResetPostcondition ==
    \A w \in Workers :
        (reset_from[w] # NoReset /\ query_size[w] # None) =>
            /\ counter[w] = 0
            /\ Len(values[w]) = query_size[w]
            /\ Len(indices[w]) = query_size[w]
            /\ \A i \in 1..query_size[w] : values[w][i] = 0 /\ indices[w][i] = -1

\* C7 witness: reset() has just run on an instance that a raising
\* test_step_end call had left with _counter above pool_size.
C7_Witness ==
    \E w \in Workers :
        /\ query_size[w] # None
        /\ reset_from[w] # NoReset
        /\ reset_from[w].error = "RuntimeError"
        /\ reset_from[w].counter > pool_size
        /\ counter[w] = 0

\* C8: after reset(), whatever batches test_step_end was called on,
\* len(values) = len(indices) = query_size.
C8_LengthInvariant ==
    \A w \in Workers :
        IsReset(w) => Len(values[w]) = query_size[w] /\ Len(indices[w]) = query_size[w]

\* C8 witness: a batch smaller than query_size and then a batch of at least
\* query_size examples were merged into a state of two slots.
C8_Witness ==
    \E w \in Workers :
        /\ IsReset(w)
        /\ NumRaised(w) = 0
        /\ query_size[w] = 2
        /\ Len(hist[w]) = 2
        /\ Len(hist[w][1].batch) < query_size[w]
        /\ Len(hist[w][2].batch) >= query_size[w]
        /\ Len(values[w]) = 2

\* C9: with non-zero scores, the state after a full pass in consecutive
\* batches is the state every other cut of the pool into consecutive batches
\* ends in: values and indices do not depend on the batch sizes.
C9_BatchSizeInvariant ==
    \A w \in Workers :
        (FullPass(w) /\ \A i \in 1..pool_size : pool[i] # 0) =>
            \A cut \in Cuts(pool_size) :
                RunRound(cut, pool, query_size[w], pool_size)
                    = {[counter |-> counter[w], values |-> values[w], indices |-> indices[w]]}

\* C9 witness: a full pass in several batches over a pool of three non-zero
\* scores, a negative one among them, with query_size 2.
C9_Witness ==
    \E w \in Workers :
        /\ FullPass(w)
        /\ pool_size = 3
        /\ query_size[w] = 2
        /\ Len(hist[w]) = 2
        /\ \A i \in 1..pool_size : pool[i] # 0
        /\ \E i \in 1..pool_size : pool[i] < 0

\* The per-worker states combined as C10 says: the top-query_size of the
\* concatenation of the workers' values, with the indices that go with them.
Combined(q) ==
    Merge(<< >>, << >>,
          Flatten([w \in 1..NumWorkers |-> values[w]]),
          Flatten([w \in 1..NumWorkers |-> indices[w]]), q)

\* C10: when every worker's instance was reset and the workers together have
\* merged every example of the pool, each from its own shard, the combined
\* (score, index) pairs are those of a single instance that processes the
\* whole pool.
C10_ShardInvariant ==
    ( /\ \A w \in Workers : IsReset(w) /\ outputs[w] = NoOutputs /\ NumRaised(w) = 0
      /\ Taken = Range(PoolOrder) )
        => \A c \in Combined(query_size[1]) :
              \E r \in RunRound(<<PoolOrder>>, pool, query_size[1], pool_size) :
                  PairSet(c.values, c.indices) = PairSet(r.values, r.indices)

\* The candidates test_step returns for a batch, with the pool indices
\* _batch_to_pool gives them when _counter is c.
Candidates(batch, c, q) ==
    {[values |-> out.values, indices |-> BatchToPool(out.indices, Len(batch), c, pool_size).indices] :
        out \in OptimizeObjective(ScoresOf(pool, batch), q)}

\* The scores of a sequence of candidates are pairwise distinct.
DistinctScores(vals) == \A i, j \in 1..Len(vals) : vals[i] = vals[j] => i = j

\* The batch of batch_size examples that follows the batch test_step has
\* just scored for w.
FollowingBatch(w, batch_size) ==
    [j \in 1..batch_size |-> (Fed(w) + Len(outputs[w].batch) + j - 1) % pool_size]

\* C11: the merge of test_step_end, top-query_size of the concatenation, is
\* commutative and associative as a set of (score, index) pairs when the
\* scores are pairwise distinct.  A is the state of the instance, B the
\* candidates test_step has just returned, C those of any batch that follows.
C11_MergeAssocComm ==
    \A w \in Workers :
        (IsReset(w) /\ outputs[w] # NoOutputs /\ counter[w] # None) =>
            \A batch_size \in 1..pool_size :
                \A C \in Candidates(FollowingBatch(w, batch_size),
                                    counter[w] + outputs[w].batch_size, query_size[w]) :
                    LET q  == query_size[w]
                        Av == values[w]
                        Ai == indices[w]
                        Bv == outputs[w].values
                        Bi == BatchToPool(outputs[w].indices, outputs[w].batch_size,
                                          counter[w], pool_size).indices
                    IN  DistinctScores(Av \o Bv \o C.values) =>
                            /\ \A ab \in Merge(Av, Ai, Bv, Bi, q) :
                               \A ba \in Merge(Bv, Bi, Av, Ai, q) :
                                    PairSet(ab.values, ab.indices) = PairSet(ba.values, ba.indices)
                            /\ \A ab \in Merge(Av, Ai, Bv, Bi, q) :
                               \A abc \in Merge(ab.values, ab.indices, C.values, C.indices, q) :
                               \A bc \in Merge(Bv, Bi, C.values, C.indices, q) :
                               \A a_bc \in Merge(Av, Ai, bc.values, bc.indices, q) :
                                    PairSet(abc.values, abc.indices) = PairSet(a_bc.values, a_bc.indices)

\* C11 witness: a state of two slots that holds a real candidate, a pending
\* batch and a following batch, all scores distinct, so that the merge of
\* the three must drop a candidate.
C11_Witness ==
    \E w \in Workers :
        /\ IsReset(w)
        /\ outputs[w] # NoOutputs
        /\ query_size[w] = 2
        /\ pool_size = 3
        /\ counter[w] = 1
        /\ Len(outputs[w].batch) = 1
        /\ NumRaised(w) = 0
        /\ \E i \in 1..2 : indices[w][i] # -1
        /\ DistinctScores(values[w] \o outputs[w].values \o ScoresOf(pool, FollowingBatch(w, 1)))

C13_UnimplementedObjective ==
    [][\A w \in Workers : \A batch_size \in 1..pool_size :
          (~objective_overridden /\ TestStep(w, LoaderBatch(w, batch_size))) =>
              /\ error'[w] = "NotImplementedError"
              /\ outputs'[w] = NoOutputs
              /\ UNCHANGED <<counter, values, indices>>]_vars

\* C13 witness: test_step has raised NotImplementedError on a reset instance
\* of a strategy without objective; its state is still the reset state.
C13_Witness ==
    \E w \in Workers :
        /\ ~objective_overridden
        /\ error[w] = "NotImplementedError"
        /\ IsReset(w)
        /\ counter[w] = 0
        /\ outputs[w] = NoOutputs
        /\ \A i \in 1..Len(indices[w]) : indices[w][i] = -1

\* C14: after reset(), every slot whose index is not -1 holds an index in
\* 0 .. _counter-1 that is below pool_size, together with the score of the
\* example that was processed at that position since the reset, and no such
\* index is in two slots.
C14_IndexScorePairing ==
    \A w \in Workers :
        IsReset(w) =>
            LET seen == Flatten(Batches(w))
                real == {i \in 1..Len(indices[w]) : indices[w][i] # -1}
            IN  /\ \A i \in real :
                      /\ 0 <= indices[w][i]
                      /\ indices[w][i] < counter[w]
                      /\ indices[w][i] < pool_size
                      /\ values[w][i] = pool[seen[indices[w][i] + 1] + 1]
                /\ \A i, j \in real : indices[w][i] = indices[w][j] => i = j

\* C14 witness: two slots hold examples of two different batches, the second
\* batch having started at _counter 2.
C14_Witness ==
    \E w \in Workers :
        /\ IsReset(w)
        /\ NumRaised(w) = 0
        /\ Len(hist[w]) = 2
        /\ Len(hist[w][1].batch) = 2
        /\ query_size[w] = 2
        /\ \E i, j \in 1..2 : indices[w][i] = 2 /\ indices[w][j] \in {0, 1}

\* C15: a test_step_end call that raises the RuntimeError of _batch_to_pool
\* leaves values and indices exactly as they were and has advanced _counter
\* by the batch's batch_size.
C15_StateOnOverflow ==
    [][\A w \in Workers :
          (outputs[w] # NoOutputs /\ outputs'[w] = NoOutputs /\ error'[w] = "RuntimeError") =>
              /\ values'[w] = values[w]
              /\ indices'[w] = indices[w]
              /\ counter'[w] = counter[w] + outputs[w].batch_size
              /\ counter'[w] > pool_size]_vars

\* C15 witness: a call has just raised on an instance whose state holds a
\* real candidate; _counter is past the pool.
C15_Witness ==
    \E w \in Workers :
        /\ IsReset(w)
        /\ error[w] = "RuntimeError"
        /\ outputs[w] = NoOutputs
        /\ Len(hist[w]) = 2
        /\ hist[w][2].raised
        /\ counter[w] = pool_size + Len(hist[w][2].batch)
        /\ \E i \in 1..Len(indices[w]) : indices[w][i] # -1

\* C16: once _counter has reached pool_size or a test_step_end call has
\* raised the RuntimeError, every further test_step_end call raises it, until
\* reset(); the first call after a reset() is accepted.
C16_StickyUntilReset ==
    [][\A w \in Workers :
          (outputs[w] # NoOutputs /\ outputs'[w] = NoOutputs /\ counter[w] # None) =>
              /\ (counter[w] >= pool_size \/ NumRaised(w) > 0) =>
                    /\ outputs[w].batch_size >= 1
                    /\ error'[w] = "RuntimeError"
                    /\ hist'[w][Len(hist'[w])].raised
              /\ (IsReset(w) /\ counter[w] = 0 /\ outputs[w].batch_size <= pool_size) =>
                    error'[w] = "ok"]_vars

\* C16 witness: after a full pass two further calls have raised, one after
\* the other, without a reset in between.
C16_Witness ==
    \E w \in Workers :
        /\ IsReset(w)
        /\ NumRaised(w) = 2
        /\ ~hist[w][1].raised
        /\ error[w] = "RuntimeError"
        /\ counter[w] > pool_size + 1

\* C17: a test_step_end call that does not raise leaves in every slot a
\* value at least as large as the one the slot held before the call.
C17_ValuesNeverWorse ==
    [][\A w \in Workers :
          (IsReset(w) /\ outputs[w] # NoOutputs /\ outputs'[w] = NoOutputs /\ error'[w] = "ok") =>
              /\ Len(values'[w]) = Len(values[w])
              /\ \A i \in 1..Len(values[w]) : values'[w][i] >= values[w][i]]_vars

\* C17 witness: the one slot held the positive score of the first example
\* and a second call replaced it by the larger score of the second.
C17_Witness ==
    \E w \in Workers :
        /\ IsReset(w)
        /\ query_size[w] = 1
        /\ NumRaised(w) = 0
        /\ outputs[w] = NoOutputs
        /\ Len(hist[w]) = 2
        /\ Len(hist[w][1].batch) = 1
        /\ pool[1] > 0
        /\ pool[2] > pool[1]
        /\ values[w] = <<pool[2]>>
        /\ indices[w] = <<1>>

\* C18: after reset() values is in non-increasing order, and once examples
\* have been merged slot 0 holds the best of them: its score in values and
\* its pool index in indices.
C18_RankedState ==
    \A w \in Workers :
        IsReset(w) =>
            /\ \A i, j \in 1..Len(values[w]) : i < j => values[w][i] >= values[w][j]
            /\ Len(indices[w]) = Len(values[w])
            /\ (NumRaised(w) = 0 /\ Fed(w) > 0) =>
                  LET seen == Flatten(Batches(w))
                      seen_scores == ScoresOf(pool, seen)
                      best == CHOOSE i \in 1..Len(seen) :
                                  \A j \in 1..Len(seen) : seen_scores[j] <= seen_scores[i]
                  IN  /\ values[w][1] = seen_scores[best]
                      /\ indices[w][1] = best - 1

====
